---------------------------- MODULE Spec2Model ----------------------------
(***************************************************************************)
(* A model of the KUKA VarProxy client (kuka_c3_bridge_client.py) and of   *)
(* the command controller built on it (kuka_remote_controller.py).         *)
(*                                                                         *)
(* Python str values are sequences of code points, bytes values are        *)
(* sequences of numbers in 0..255.  A Python value that a call hands back  *)
(* (or the exception it raises) is a record [tag, val, exc].               *)
(***************************************************************************)
EXTENDS Integers, Sequences, FiniteSets, TLC

(***************************************************************************)
(* Bounds of the model.                                                    *)
(***************************************************************************)
\* Successful exchanges after which no new public call is started (Spec).
MaxExchanges == 3
\* Polls the controller answers with a busy COM_ACTION during one motion.
MaxBusyPolls == 2
\* The count of COM_ACTION polls of one call is kept up to this number.
PollCap == 2
\* Successful exchanges after which no new call is started in SpecWrap: enough
\* for msg_id to pass 65535 from either initial value and go on.
MaxWrapExchanges == 65538

(***************************************************************************)
(* Program constants.                                                      *)
(***************************************************************************)
\* struct "H": an unsigned 16-bit field; msg_id is kept modulo 65536.
SeqModulus == 65536
\* The largest number a struct "H" field takes.
MaxU16 == 65535
\* random.randint(1, 100)
MinInitId == 1
MaxInitId == 100
\* struct.calcsize("!HHBH"): the bytes of a response before the value.
RspHeadLen == 7
\* "H?" : error code and ok flag, the bytes of a response after the value.
RspTailLen == 3
\* sock.recv(256)
RecvSize == 256
\* The read/write flag of a request.
FlagRead == 0
FlagWrite == 1

(***************************************************************************)
(* Python values.                                                          *)
(***************************************************************************)
PyNone == [tag |-> "None", val |-> <<>>, exc |-> ""]
PyBytes(b) == [tag |-> "bytes", val |-> b, exc |-> ""]
PyStr(s) == [tag |-> "str", val |-> s, exc |-> ""]
PyInt(n) == [tag |-> "int", val |-> <<n>>, exc |-> ""]
PyTrue == [tag |-> "True", val |-> <<>>, exc |-> ""]
PyFalse == [tag |-> "False", val |-> <<>>, exc |-> ""]
PyBool(b) == IF b THEN PyTrue ELSE PyFalse
PyList(l) == [tag |-> "list", val |-> l, exc |-> ""]
PyFloat(f) == [tag |-> "float", val |-> f, exc |-> ""]
\* An attribute that was never assigned (self.rsp before the first request).
PyUnset == [tag |-> "unset", val |-> <<>>, exc |-> ""]
\* The call did not return: it raised the exception e.
Raised(e) == [tag |-> "raised", val |-> <<>>, exc |-> e]
\* The call has not returned yet.
Pending == [tag |-> "pending", val |-> <<>>, exc |-> ""]

\* isinstance(x, str)
IsStr(x) == x.tag = "str"
\* Python truthiness of an Optional[bytes]: None and b"" are falsy.
Truthy(x) == x.tag = "bytes" /\ Len(x.val) > 0

(***************************************************************************)
(* Text: the variable names and the literal pieces of the payloads.        *)
(***************************************************************************)
COM_ACTION == <<67, 79, 77, 95, 65, 67, 84, 73, 79, 78>>
COM_E6AXIS == <<67, 79, 77, 95, 69, 54, 65, 88, 73, 83>>
COM_E6POS == <<67, 79, 77, 95, 69, 54, 80, 79, 83>>
COM_FRAME == <<67, 79, 77, 95, 70, 82, 65, 77, 69>>
COM_VALUE1 == <<67, 79, 77, 95, 86, 65, 76, 85, 69, 49>>
COM_VALUE2 == <<67, 79, 77, 95, 86, 65, 76, 85, 69, 50>>
\* "$TOOL", "$POS_ACT_MES", "$AXIS_ACT_MEAS", "$VEL.CP", "$VEL_AXIS[1]"
VAR_TOOL == <<36, 84, 79, 79, 76>>
VAR_POS_ACT_MES == <<36, 80, 79, 83, 95, 65, 67, 84, 95, 77, 69, 83>>
VAR_AXIS_ACT_MEAS == <<36, 65, 88, 73, 83, 95, 65, 67, 84, 95, 77, 69, 65, 83>>
VAR_VEL_CP == <<36, 86, 69, 76, 46, 67, 80>>
VAR_VEL_AXIS1 == <<36, 86, 69, 76, 95, 65, 88, 73, 83, 91, 49, 93>>
\* "{FRAME: ", "{E6AXIS: ", "{E6POS: ", "}", ", ", "XYZABC"
TxtFrameOpen == <<123, 70, 82, 65, 77, 69, 58, 32>>
TxtE6AxisOpen == <<123, 69, 54, 65, 88, 73, 83, 58, 32>>
TxtE6PosOpen == <<123, 69, 54, 80, 79, 83, 58, 32>>
TxtClose == <<125>>
TxtSep == <<44, 32>>
PoseLabels == <<88, 89, 90, 65, 66, 67>>
\* The idle sentinel b"0" the Motion Waiter compares with.
IdleSentinel == <<48>>

\* The decimal digits of a natural number n, as text.
RECURSIVE Digits(_)
Digits(n) == IF n < 10 THEN <<48 + n>> ELSE Digits(n \div 10) \o <<48 + (n % 10)>>

\* The last d decimal digits of n, zero padded, as text.
RECURSIVE PadDigits(_, _)
PadDigits(n, d) == IF d = 0 THEN <<>> ELSE PadDigits(n \div 10, d - 1) \o <<48 + (n % 10)>>

Pow10(d) == IF d = 3 THEN 1000 ELSE 10000
Abs(n) == IF n < 0 THEN -n ELSE n

\* f"{v:.<d>f}" of the number v / 10^d (d is 3 or 4): a value with exactly d
\* decimals, so that no rounding takes place.
FormatFixed(v, d) ==
    (IF v < 0 THEN <<45>> ELSE <<>>)
        \o Digits(Abs(v) \div Pow10(d)) \o <<46>> \o PadDigits(Abs(v) % Pow10(d), d)

\* f"{n}" of an integer.
FormatInt(n) == (IF n < 0 THEN <<45>> ELSE <<>>) \o Digits(Abs(n))

\* ", ".join of a sequence of texts.
RECURSIVE Join(_)
Join(parts) ==
    IF Len(parts) = 0 THEN <<>>
    ELSE IF Len(parts) = 1 THEN parts[1]
    ELSE parts[1] \o TxtSep \o Join(Tail(parts))

Min(a, b) == IF a < b THEN a ELSE b

\* pose_to_str: "X 0.0000, Y 0.0000, ..." of the first six numbers (zip stops
\* at the shorter of "XYZABC" and xyzrpy[:6]); numbers in 1/10000.
pose_to_str(xyzrpy) ==
    Join([i \in 1..Min(Len(xyzrpy), 6) |->
            <<PoseLabels[i], 32>> \o FormatFixed(xyzrpy[i], 4)])

\* The label of the i-th joint: A1..A6 then E1..E6.
JointLabel(i) == IF i <= 6 THEN <<65, 48 + i>> ELSE <<69, 48 + (i - 6)>>

\* joints_to_str: "A1 0.000, A2 0.000, ..." of up to twelve numbers, one field
\* per element present; numbers in 1/1000.
joints_to_str(q) ==
    Join([i \in 1..Min(Len(q), 12) |-> JointLabel(i) \o <<32>> \o FormatFixed(q[i], 3)])

(***************************************************************************)
(* str.encode("UTF-8")                                                     *)
(***************************************************************************)
Utf8(cp) ==
    IF cp < 128 THEN <<cp>>
    ELSE IF cp < 2048 THEN <<192 + (cp \div 64), 128 + (cp % 64)>>
    ELSE IF cp < 65536
        THEN <<224 + (cp \div 4096), 128 + ((cp \div 64) % 64), 128 + (cp % 64)>>
    ELSE <<240 + (cp \div 262144), 128 + ((cp \div 4096) % 64),
           128 + ((cp \div 64) % 64), 128 + (cp % 64)>>

RECURSIVE EncodeEach(_)
EncodeEach(s) == IF Len(s) = 0 THEN <<>> ELSE Utf8(Head(s)) \o EncodeEach(Tail(s))
\* ASCII text encodes to itself, byte for code point.
Encode(s) == IF s \in Seq(0..127) THEN s ELSE EncodeEach(s)

(***************************************************************************)
(* struct: big-endian fields.                                              *)
(***************************************************************************)
\* struct.pack("!H", n), for n in 0..65535
U16(n) == <<n \div 256, n % 256>>
\* struct.unpack("!H", b[i..i+1])
GetU16(b, i) == b[i] * 256 + b[i + 1]

\* _pack_read_req: the bytes of the request, or <<>> when struct.pack raises
\* (a field over 65535).
PackReadReqOkNameOnly(id, name) == Len(name) <= MaxU16
PackReadReqOk(id, name) == Len(name) + 3 <= MaxU16
_pack_read_req(id, name) ==
    U16(id) \o U16(Len(name) + 3) \o <<FlagRead>> \o U16(Len(name)) \o name

\* _pack_write_req
PackWriteReqOk(id, name, value) == Len(name) + 3 + 2 + Len(value) <= MaxU16
PackWriteReqShortBody(id, name, value) ==
    U16(id) \o U16(Len(name) + 3 + Len(value)) \o <<FlagWrite>>
        \o U16(Len(name)) \o name \o U16(Len(value)) \o value
_pack_write_req(id, name, value) ==
    U16(id) \o U16(Len(name) + 3 + 2 + Len(value)) \o <<FlagWrite>>
        \o U16(Len(name)) \o name \o U16(Len(value)) \o value


(***************************************************************************)
(* The response, as the controller lays it out and as _read_rsp takes it   *)
(* apart.                                                                  *)
(***************************************************************************)
\* seq:u16 | body_len:u16 | msg_type:u8 | value_len:u16 | value | error:u16 | ok:u8
PackRsp(id, body_len, msg_type, value_len, val, error_code, isok) ==
    U16(id) \o U16(body_len) \o <<msg_type>> \o U16(value_len) \o val
        \o U16(error_code) \o <<isok>>

\* var_value_len = len(self.rsp) - struct.calcsize("!HHBH") - 3
VarValueLen(b) == Len(b) - RspHeadLen - RspTailLen

\* struct.unpack raises struct.error when the count of the "s" field is
\* negative ("bad char in struct format").
UnpackFails(b) == VarValueLen(b) < 0

\* The fields struct.unpack("!HHBH<n>sH?", rsp) gives, n = VarValueLen(rsp).
RspMsgId(b) == GetU16(b, 1)
RspBodyLen(b) == GetU16(b, 3)
RspMsgType(b) == b[5]
RspDeclaredValueLen(b) == GetU16(b, 6)
RspVarValue(b) == SubSeq(b, RspHeadLen + 1, RspHeadLen + VarValueLen(b))
RspErrorCode(b) == GetU16(b, Len(b) - 2)
\* "?" : any non-zero byte is True
RspIsOk(b) == b[Len(b)] # 0

\* if isok and msg_id == self.msg_id
CorrelatesOkOnly(b, id) == RspIsOk(b)
Correlates(b, id) == RspIsOk(b) /\ RspMsgId(b) = id

\* self.msg_id = (self.msg_id + 1) % 65536
NextMsgIdNoWrap(id) == id + 1
NextMsgId(id) == (id + 1) % SeqModulus

\* _read_rsp on the response r (a Python value) with the client's msg_id id:
\* what it returns (or raises) and the msg_id it leaves.
_read_rsp(r, id) ==
    IF r.tag # "bytes" THEN [ret |-> PyNone, msg_id |-> id]
    ELSE IF UnpackFails(r.val) THEN [ret |-> Raised("struct.error"), msg_id |-> id]
    ELSE IF Correlates(r.val, id)
        THEN [ret |-> PyBytes(RspVarValue(r.val)), msg_id |-> NextMsgId(id)]
    ELSE [ret |-> PyNone, msg_id |-> id]

(***************************************************************************)
(* The request, as the controller reads it off the wire.                   *)
(***************************************************************************)
ReqId(b) == GetU16(b, 1)
ReqFlag(b) == b[5]
ReqNameLen(b) == GetU16(b, 6)
ReqName(b) == SubSeq(b, 8, 7 + ReqNameLen(b))
ReqValueLen(b) == GetU16(b, 8 + ReqNameLen(b))
ReqValue(b) == SubSeq(b, 10 + ReqNameLen(b), 9 + ReqNameLen(b) + ReqValueLen(b))

(***************************************************************************)
(* The state.                                                              *)
(***************************************************************************)
VARIABLES
    \* C3BridgeClient
    msg_id,     \* self.msg_id
    sock,       \* self.sock: "connected", "unconnected" or "peer_closed"
    varname,    \* self.varname (bytes, or unset)
    value,      \* self.value (bytes, or unset)
    rsp,        \* self.rsp (bytes, None, or unset)
    \* The connection
    sent,       \* the bytes most recently handed to sock.sendall
    unserved,   \* TRUE while the controller has not handled that request
    inbuf,      \* the bytes that have arrived and were not received yet
    \* The caller of the public operation in progress
    pc,         \* "idle", "call", "sent", "rsp", "ret" or "exc"
    op,         \* the public operation: [kind, wait]
    vars,       \* the OrderedDict of a command, a sequence of <<name, text>>
    idx,        \* the position in vars of the write in progress
    req,        \* the arguments of the read/write call: [flag, var, value]
    ret,        \* what the last read/write call returned or raised
    outcome,    \* what the last public operation returned or raised
    \* The controller
    com_action, \* the controller's value of COM_ACTION (bytes)
    busyPolls,  \* the polls it has answered with a busy COM_ACTION
    \* History of the run
    init_id,    \* the msg_id chosen at construction
    nOk,        \* the exchanges that succeeded so far
    writes,     \* the writes the operation in progress has sent: [name, value, res]
    polls,      \* the reads of COM_ACTION it has sent, counted up to PollCap
    io,         \* what the read/write call in progress did on the socket: "send", "recv"
    answer,     \* the value field of the response the controller wrote last
    \* Two threads that call read on the one client
    th,         \* per thread: [pc, var, req, got, ret]
    unans,      \* the requests on the wire the controller has not answered
    maxOut      \* the most requests that were on the wire at once

clientVars == <<msg_id, sock, varname, value, rsp>>
wireVars == <<sent, unserved, inbuf>>
callerVars == <<pc, op, vars, idx, req, ret, outcome>>
ctrlVars == <<com_action, busyPolls>>
histVars == <<init_id, nOk, writes, polls>>
logVars == <<io, answer>>
thrVars == <<th, unans, maxOut>>
vars_all == <<clientVars, wireVars, callerVars, ctrlVars, histVars, logVars, thrVars>>

(***************************************************************************)
(* The inputs the model draws from.                                        *)
(***************************************************************************)
\* The initial msg_id: random.randint(1, 100).
InitIds == {MinInitId, MaxInitId}
\* Joint vectors (1/1000 degree) and poses (1/10000 mm or degree).
JointInputs == {<<1000, -2500, 3333>>}
PoseInputs == {<<125000, -30000, 0, 0, 0, 0>>}
\* Speeds, in 1/10000.
SpeedInputs == {5000}
DigitalOutputIds == {10}
\* What a caller of read/write passes as a name or a value.
ReadNames == {PyStr(COM_ACTION), PyStr(VAR_VEL_CP), PyInt(7)}
WriteNames == {PyStr(COM_ACTION), PyInt(7)}
WriteValues == {PyStr(<<53>>), PyNone}
\* The values the controller holds for the variables other than COM_ACTION.
ReadValues == {<<>>, <<49, 46, 53>>}

\* The threads of the program that call the client.
Threads == {1, 2}

Commands == {"set_tool", "movej", "movel", "set_cartesian_speed",
             "set_joint_speed", "set_digital_output"}
Getters == {"get_tool", "get_pose", "get_joints", "get_cartesian_speed",
            "get_joint_speed"}

(***************************************************************************)
(* Construction: C3BridgeClient.__init__ and KUKARemoteController.__init__ *)
(***************************************************************************)
Init ==
    /\ msg_id \in InitIds
    /\ init_id = msg_id
    \* connect() succeeded, or failed and the failure was swallowed
    /\ sock \in {"connected", "unconnected"}
    /\ varname = PyUnset
    /\ value = PyUnset
    /\ rsp = PyUnset
    /\ sent = <<>>
    /\ unserved = FALSE
    /\ inbuf = <<>>
    /\ pc = "idle"
    /\ op = [kind |-> "none", wait |-> FALSE]
    /\ vars = <<>>
    /\ idx = 0
    /\ req = [flag |-> FlagRead, var |-> PyNone, value |-> PyNone]
    /\ ret = Pending
    /\ outcome = Pending
    /\ com_action = IdleSentinel
    /\ busyPolls = 0
    /\ nOk = 0
    /\ writes = <<>>
    /\ polls = 0
    /\ io = <<>>
    /\ answer = <<>>
    /\ th = [t \in Threads |-> [pc |-> "idle", var |-> PyNone, req |-> <<>>, got |-> <<>>,
                            ret |-> Pending]]
    /\ unans = <<>>
    /\ maxOut = 0

(***************************************************************************)
(* The public operations: from the call to the first read/write.           *)
(***************************************************************************)
ReadReq(name) == [flag |-> FlagRead, var |-> name, value |-> PyNone]
WriteReq(name, val) == [flag |-> FlagWrite, var |-> name, value |-> val]

\* The caller starts the operation o whose first read/write is r.
Begin(o, v, r) ==
    /\ pc = "idle"
    /\ pc' = "call"
    /\ op' = o
    /\ vars' = v
    /\ idx' = IF Len(v) > 0 THEN 1 ELSE 0
    /\ req' = r
    /\ ret' = Pending
    /\ outcome' = Pending
    /\ writes' = <<>>
    /\ polls' = 0
    /\ io' = <<>>
    /\ UNCHANGED <<clientVars, wireVars, ctrlVars, init_id, nOk, answer, thrVars>>

\* The first write of a command's OrderedDict.
FirstWrite(v) == WriteReq(PyStr(v[1][1]), PyStr(v[1][2]))

\* client.read(var), called directly
CallRead(name) ==
    Begin([kind |-> "read", wait |-> FALSE], <<>>, ReadReq(name))

\* client.write(var, value), called directly
CallWrite(name, val) ==
    Begin([kind |-> "write", wait |-> FALSE], <<>>, WriteReq(name, val))

get_tool == Begin([kind |-> "get_tool", wait |-> FALSE], <<>>, ReadReq(PyStr(VAR_TOOL)))
get_pose ==
    Begin([kind |-> "get_pose", wait |-> FALSE], <<>>, ReadReq(PyStr(VAR_POS_ACT_MES)))
get_joints ==
    Begin([kind |-> "get_joints", wait |-> FALSE], <<>>, ReadReq(PyStr(VAR_AXIS_ACT_MEAS)))
get_cartesian_speed ==
    Begin([kind |-> "get_cartesian_speed", wait |-> FALSE], <<>>, ReadReq(PyStr(VAR_VEL_CP)))
get_joint_speed ==
    Begin([kind |-> "get_joint_speed", wait |-> FALSE], <<>>, ReadReq(PyStr(VAR_VEL_AXIS1)))

\* The OrderedDict each command builds.
SetToolVarsActionFirst(xyzrpy) ==
    << <<COM_ACTION, <<53>> >>,
       <<COM_FRAME, TxtFrameOpen \o pose_to_str(xyzrpy) \o TxtClose>> >>
SetToolVars(xyzrpy) ==
    << <<COM_FRAME, TxtFrameOpen \o pose_to_str(xyzrpy) \o TxtClose>>,
       <<COM_ACTION, <<53>> >> >>
MoveJVars(q) ==
    << <<COM_E6AXIS, TxtE6AxisOpen \o joints_to_str(q) \o TxtClose>>,
       <<COM_ACTION, <<50>> >> >>
MoveLVarsJointCode(xyzrpy) ==
    << <<COM_E6POS, TxtE6PosOpen \o pose_to_str(xyzrpy) \o TxtClose>>,
       <<COM_ACTION, <<50>> >> >>
MoveLVars(xyzrpy) ==
    << <<COM_E6POS, TxtE6PosOpen \o pose_to_str(xyzrpy) \o TxtClose>>,
       <<COM_ACTION, <<51>> >> >>
SetCartesianSpeedVars(v) ==
    << <<COM_VALUE1, FormatFixed(v, 4)>>, <<COM_ACTION, <<54>> >> >>
SetJointSpeedVars(v) ==
    << <<COM_VALUE2, FormatFixed(v, 4)>>, <<COM_ACTION, <<55>> >> >>
SetDigitalOutputVars(do_id, do_val) ==
    << <<COM_VALUE1, FormatInt(do_id)>>,
       <<COM_VALUE2, FormatInt(IF do_val THEN 1 ELSE 0)>>,
       <<COM_ACTION, <<49, 48>> >> >>

Command(kind, wait, v) == Begin([kind |-> kind, wait |-> wait], v, FirstWrite(v))

set_tool(xyzrpy) == Command("set_tool", FALSE, SetToolVars(xyzrpy))
movej(q, wait) == Command("movej", wait, MoveJVars(q))
movel(xyzrpy, wait) == Command("movel", wait, MoveLVars(xyzrpy))
set_cartesian_speed(v) == Command("set_cartesian_speed", FALSE, SetCartesianSpeedVars(v))
set_joint_speed(v) == Command("set_joint_speed", FALSE, SetJointSpeedVars(v))
set_digital_output(do_id, do_val) ==
    Command("set_digital_output", FALSE, SetDigitalOutputVars(do_id, do_val))

\* sock.connect_ex on the probe's own socket: 0, or an error number (111,
\* ECONNREFUSED), or socket.error raised.
ConnectEx(attempt) ==
    CASE attempt = "ok" -> PyInt(0)
      [] attempt = "refused" -> PyInt(111)
      [] attempt = "error" -> Raised("socket.error")

\* A probe that connects the client's own socket anew.
TestConnectionOnPrimary(attempt) ==
    /\ pc = "idle"
    /\ op' = [kind |-> "test_connection", wait |-> FALSE]
    /\ ret' = ConnectEx(attempt)
    /\ outcome' = PyBool(ConnectEx(attempt) = PyInt(0))
    /\ sock' = IF attempt = "ok" THEN "connected" ELSE "unconnected"
    /\ vars' = <<>>
    /\ idx' = 0
    /\ writes' = <<>>
    /\ polls' = 0
    /\ UNCHANGED <<msg_id, varname, value, rsp, wireVars, ctrlVars, pc, req, init_id, nOk,
                   logVars, thrVars>>

\* test_connection / can_connect: a connection attempt on a socket of its own;
\* return ret == 0, and False on socket.error.  ret keeps what connect_ex gave.
test_connection(attempt) ==
    /\ pc = "idle"
    /\ op' = [kind |-> "test_connection", wait |-> FALSE]
    /\ ret' = ConnectEx(attempt)
    /\ outcome' = PyBool(ConnectEx(attempt) = PyInt(0))
    /\ vars' = <<>>
    /\ idx' = 0
    /\ writes' = <<>>
    /\ polls' = 0
    /\ UNCHANGED <<clientVars, wireVars, ctrlVars, pc, req, init_id, nOk, logVars, thrVars>>

(***************************************************************************)
(* Reply text to numbers: bytes.decode("utf-8"), the pattern               *)
(* \W(-?[\d\.]+)\W and float().  A float is <<n, e>>, the number n / 10^e  *)
(* with e as small as possible.  The replies of the model are ASCII text   *)
(* of signs, digits and dots: exponents, blanks, "inf" and "nan" are not   *)
(* modelled.                                                               *)
(***************************************************************************)
\* bytes.decode("utf-8") of one- and two-byte sequences; <<-1>> marks a
\* UnicodeDecodeError.
RECURSIVE DecodeEach(_)
DecodeEach(b) ==
    IF Len(b) = 0 THEN <<>>
    ELSE IF b[1] < 128 THEN
        LET rest == DecodeEach(Tail(b)) IN IF rest = <<-1>> THEN rest ELSE <<b[1]>> \o rest
    ELSE IF b[1] \in 194..223 /\ Len(b) >= 2 /\ b[2] \in 128..191 THEN
        LET rest == DecodeEach(SubSeq(b, 3, Len(b))) IN
        IF rest = <<-1>> THEN rest ELSE <<(b[1] - 192) * 64 + (b[2] - 128)>> \o rest
    ELSE <<-1>>
\* ASCII bytes decode to themselves, code point for byte.
Decode(b) == IF b \in Seq(0..127) THEN b ELSE DecodeEach(b)

IsDigit(c) == c \in 48..57
\* \w : letters, digits and the underscore
IsWordChar(c) == IsDigit(c) \/ c \in 65..90 \/ c \in 97..122 \/ c = 95
\* [\d\.]
InClass(c) == IsDigit(c) \/ c = 46

\* The first position from j on that is past the text or not in [\d\.].
RECURSIVE RunEnd(_, _)
RunEnd(s, j) == IF j > Len(s) \/ ~InClass(s[j]) THEN j ELSE RunEnd(s, j + 1)

SetMax(S) == CHOOSE x \in S : \A y \in S : y <= x

\* The match of the pattern that starts at position i, if there is one: the
\* group, and the position of the closing \W.  The greedy [\d\.]+ gives back
\* characters until the next one is a \W, which inside the run is a dot.
MatchAt(s, i) ==
    IF i > Len(s) \/ IsWordChar(s[i]) THEN [ok |-> FALSE, group |-> <<>>, end |-> i]
    ELSE LET j == IF i + 1 <= Len(s) /\ s[i + 1] = 45 THEN i + 2 ELSE i + 1
             k == RunEnd(s, j)
             dots == {m \in (j + 1)..(k - 1) : s[m] = 46}
         IN IF k = j THEN [ok |-> FALSE, group |-> <<>>, end |-> i]
            ELSE IF k <= Len(s) /\ ~IsWordChar(s[k])
                THEN [ok |-> TRUE, group |-> SubSeq(s, i + 1, k - 1), end |-> k]
            ELSE IF dots = {} THEN [ok |-> FALSE, group |-> <<>>, end |-> i]
            ELSE [ok |-> TRUE, group |-> SubSeq(s, i + 1, SetMax(dots) - 1),
                  end |-> SetMax(dots)]

\* pattern_reply_numbers.findall(s): the groups of the matches that do not
\* overlap, from the left.
RECURSIVE FindAllFrom(_, _)
FindAllFrom(s, i) ==
    LET starts == {j \in i..Len(s) : MatchAt(s, j).ok} IN
    IF starts = {} THEN <<>>
    ELSE LET first == CHOOSE j \in starts : \A k \in starts : j <= k
             m == MatchAt(s, first)
         IN <<m.group>> \o FindAllFrom(s, m.end + 1)
pattern_reply_numbers_findall(s) == FindAllFrom(s, 1)

\* The text without a leading sign.
Unsigned(t) == IF Len(t) > 0 /\ t[1] \in {43, 45} THEN Tail(t) ELSE t
DotsOf(t) == {i \in 1..Len(t) : t[i] = 46}
\* float(t) does not raise ValueError
IsFloatText(t) ==
    LET u == Unsigned(t) IN
    /\ \A i \in 1..Len(u) : InClass(u[i])
    /\ Cardinality(DotsOf(u)) <= 1
    /\ \E i \in 1..Len(u) : IsDigit(u[i])
\* int(t) does not raise ValueError
IsIntText(t) ==
    LET u == Unsigned(t) IN Len(u) > 0 /\ \A i \in 1..Len(u) : IsDigit(u[i])

\* The number the digits of u spell, dots skipped.
RECURSIVE DigitsValue(_, _)
DigitsValue(u, acc) ==
    IF Len(u) = 0 THEN acc
    ELSE DigitsValue(Tail(u), IF u[1] = 46 THEN acc ELSE acc * 10 + (u[1] - 48))

RECURSIVE Normal(_, _)
Normal(n, e) == IF e > 0 /\ n % 10 = 0 THEN Normal(n \div 10, e - 1) ELSE <<n, e>>

\* float(t), for a text float takes
ParseFloat(t) ==
    LET u == Unsigned(t)
        e == IF DotsOf(u) = {} THEN 0 ELSE Len(u) - SetMax(DotsOf(u))
        n == DigitsValue(u, 0)
    IN Normal(IF Len(t) > 0 /\ t[1] = 45 THEN -n ELSE n, e)

\* [float(q) for q in texts]
Floats(texts) == [i \in 1..Len(texts) |-> ParseFloat(texts[i])]
AllFloatTexts(texts) == \A i \in 1..Len(texts) : IsFloatText(texts[i])

\* get_tool / get_joints on the reply: every number found, as floats.
GetNumbersResult(reply) ==
    IF ~Truthy(reply) THEN PyNone
    ELSE IF Decode(reply.val) = <<-1>> THEN Raised("UnicodeDecodeError")
    ELSE LET numbers == pattern_reply_numbers_findall(Decode(reply.val)) IN
         IF ~AllFloatTexts(numbers) THEN Raised("ValueError")
         ELSE PyList(Floats(numbers))

\* get_pose on the reply: the first six numbers; the seventh and eighth must be
\* there and be integers, the rest floats.
GetPoseResult(reply) ==
    IF ~Truthy(reply) THEN PyNone
    ELSE IF Decode(reply.val) = <<-1>> THEN Raised("UnicodeDecodeError")
    ELSE LET numbers == pattern_reply_numbers_findall(Decode(reply.val))
             first == SubSeq(numbers, 1, Min(6, Len(numbers)))
         IN IF ~AllFloatTexts(first) THEN Raised("ValueError")
            ELSE IF Len(numbers) < 7 THEN Raised("IndexError")
            ELSE IF ~IsIntText(numbers[7]) THEN Raised("ValueError")
            ELSE IF Len(numbers) < 8 THEN Raised("IndexError")
            ELSE IF ~IsIntText(numbers[8]) THEN Raised("ValueError")
            ELSE IF ~AllFloatTexts(SubSeq(numbers, 9, Len(numbers)))
                THEN Raised("ValueError")
            ELSE PyList(Floats(first))

\* get_cartesian_speed / get_joint_speed on the reply: float(v.decode())
GetSpeedResult(reply) ==
    IF reply.tag = "None" THEN Raised("AttributeError")
    ELSE IF Decode(reply.val) = <<-1>> THEN Raised("UnicodeDecodeError")
    ELSE IF ~IsFloatText(Decode(reply.val)) THEN Raised("ValueError")
    ELSE PyFloat(ParseFloat(Decode(reply.val)))

(***************************************************************************)
(* The Variable Client: read / write.                                      *)
(***************************************************************************)
\* What the history keeps of a write that was sent.
WriteEntry(name, val) == [name |-> name, value |-> val, res |-> "pending"]
\* How a read/write call ended, as the history keeps it.
ResultKind(r) ==
    IF r.tag = "bytes" THEN "value" ELSE IF r.tag = "None" THEN "None" ELSE "raised"

\* read: isinstance(var, str); write: isinstance(var, str) and
\* isinstance(value, str)
ArgsOkNameOnly(r) == IsStr(r.var)
ArgsOk(r) == IF r.flag = FlagRead THEN IsStr(r.var) ELSE IsStr(r.var) /\ IsStr(r.value)

\* read(var) / write(var, value) up to the return of sock.sendall: the type
\* check, the encoding of the name and the value, _pack_read_req or
\* _pack_write_req, and _send_req's self.rsp = None and sendall.
ClientSend ==
    /\ pc = "call"
    /\ LET isRead == req.flag = FlagRead
           typeOk == ArgsOk(req)
           name == Encode(req.var.val)
           val == Encode(req.value.val)
           packOk == IF isRead THEN PackReadReqOk(msg_id, name)
                     ELSE PackWriteReqOk(msg_id, name, val)
           bytes == IF isRead THEN _pack_read_req(msg_id, name)
                    ELSE _pack_write_req(msg_id, name, val)
       IN IF ~typeOk THEN
              \* raise Exception(...), before anything is stored
              /\ ret' = Raised("Exception")
              /\ pc' = "exc"
              /\ UNCHANGED <<clientVars, wireVars, writes, polls, io>>
          ELSE
              /\ varname' = PyBytes(name)
              /\ value' = IF isRead THEN value ELSE PyBytes(val)
              /\ IF ~packOk THEN
                     \* struct.pack raises struct.error
                     /\ ret' = Raised("struct.error")
                     /\ pc' = "exc"
                     /\ UNCHANGED <<rsp, wireVars, writes, polls, io>>
                 ELSE IF sock = "unconnected" THEN
                     \* sendall on the socket that never connected raises
                     \* BrokenPipeError, an OSError
                     /\ rsp' = PyNone
                     /\ ret' = Raised("OSError")
                     /\ pc' = "exc"
                     /\ UNCHANGED <<wireVars, writes, polls, io>>
                 ELSE
                     /\ rsp' = PyNone
                     /\ sent' = bytes
                     /\ unserved' = (sock = "connected")
                     /\ writes' = IF isRead THEN writes
                                  ELSE Append(writes, WriteEntry(ReqName(bytes), ReqValue(bytes)))
                     /\ polls' = IF isRead /\ name = COM_ACTION
                                 THEN Min(polls + 1, PollCap) ELSE polls
                     /\ ret' = Pending
                     /\ pc' = "sent"
                     /\ io' = Append(io, "send")
                     /\ UNCHANGED inbuf
    /\ UNCHANGED <<msg_id, sock, op, vars, idx, req, outcome, ctrlVars, init_id, nOk,
                   answer, thrVars>>

\* self.rsp = self.sock.recv(256): at most 256 of the bytes that have arrived,
\* as soon as there are some; b"" once the peer has closed the connection.
Recv ==
    /\ pc = "sent"
    /\ inbuf # <<>> \/ sock = "peer_closed"
    /\ rsp' = PyBytes(SubSeq(inbuf, 1, Min(Len(inbuf), RecvSize)))
    /\ inbuf' = SubSeq(inbuf, Min(Len(inbuf), RecvSize) + 1, Len(inbuf))
    /\ pc' = "rsp"
    /\ io' = Append(io, "recv")
    /\ UNCHANGED <<msg_id, sock, varname, value, sent, unserved, op, vars, idx, req,
                   ret, outcome, ctrlVars, histVars, answer, thrVars>>

\* A client that sends the request again when the exchange failed.
ReadRspRetries ==
    /\ pc = "rsp"
    /\ LET r == _read_rsp(rsp, msg_id) IN
       /\ msg_id' = r.msg_id
       /\ ret' = r.ret
       /\ pc' = IF r.ret.tag = "raised" THEN "exc"
                ELSE IF r.ret.tag = "None" THEN "call" ELSE "ret"
       /\ nOk' = IF r.ret.tag = "bytes" THEN nOk + 1 ELSE nOk
       /\ writes' = IF req.flag = FlagWrite
                    THEN [writes EXCEPT ![Len(writes)].res = ResultKind(r.ret)]
                    ELSE writes
    /\ UNCHANGED <<sock, varname, value, rsp, wireVars, op, vars, idx, req, outcome,
                   ctrlVars, init_id, polls, logVars, thrVars>>

\* _read_rsp, and the return of read / write
ReadRsp ==
    /\ pc = "rsp"
    /\ LET r == _read_rsp(rsp, msg_id) IN
       /\ msg_id' = r.msg_id
       /\ ret' = r.ret
       /\ pc' = IF r.ret.tag = "raised" THEN "exc" ELSE "ret"
       /\ nOk' = IF r.ret.tag = "bytes" THEN nOk + 1 ELSE nOk
       /\ writes' = IF req.flag = FlagWrite
                    THEN [writes EXCEPT ![Len(writes)].res = ResultKind(r.ret)]
                    ELSE writes
    /\ UNCHANGED <<sock, varname, value, rsp, wireVars, op, vars, idx, req, outcome,
                   ctrlVars, init_id, polls, logVars, thrVars>>

(***************************************************************************)
(* The controller and the network.                                         *)
(***************************************************************************)
\* The ways the controller answers a request.
GoodKinds == {"good"}
\* Answers that carry the request's id and ok = 1
OkKinds == {"good", "bad_value_len", "bad_body_len"}
FaultKinds == {"wrong_seq", "not_ok", "bad_value_len", "bad_body_len", "short5", "short9"}
ReplyKinds == GoodKinds \cup FaultKinds

\* The bytes of the answer of kind k to the request id/flag with the value v.
Response(k, id, flag, v) ==
    LET good == PackRsp(id, Len(v) + 6, flag, Len(v), v, 0, 1) IN
    CASE k = "good" -> good
      [] k = "wrong_seq" ->
            PackRsp((id + SeqModulus - 1) % SeqModulus, Len(v) + 6, flag, Len(v), v, 0, 1)
      [] k = "not_ok" -> PackRsp(id, 6, flag, 0, <<>>, 1, 0)
      [] k = "bad_value_len" -> PackRsp(id, Len(v) + 6, flag, Len(v) + 1, v, 0, 1)
      [] k = "bad_body_len" -> PackRsp(id, Len(v) + 7, flag, Len(v), v, 0, 1)
      [] k = "short5" -> SubSeq(good, 1, 5)
      [] k = "short9" -> SubSeq(good, 1, 9)

\* The controller handles the request on the wire and its answer arrives; v is
\* the value it holds for a variable other than COM_ACTION.
ControllerReply(k, v) ==
    /\ unserved
    /\ sock = "connected"
    /\ LET isWrite == ReqFlag(sent) = FlagWrite
           name == ReqName(sent)
           held == IF isWrite THEN ReqValue(sent)
                     ELSE IF name = COM_ACTION THEN com_action ELSE v
           busyPoll == ~isWrite /\ name = COM_ACTION /\ com_action # IdleSentinel
                       /\ k \in OkKinds
       IN /\ busyPoll => busyPolls < MaxBusyPolls
          /\ busyPolls' = IF busyPoll THEN busyPolls + 1 ELSE busyPolls
          /\ com_action' = IF isWrite /\ name = COM_ACTION /\ k \in OkKinds
                           THEN ReqValue(sent) ELSE com_action
          /\ inbuf' = inbuf \o Response(k, ReqId(sent), ReqFlag(sent), held)
          /\ answer' = IF k = "not_ok" THEN <<>> ELSE held
    /\ unserved' = FALSE
    /\ UNCHANGED <<clientVars, sent, callerVars, histVars, io, thrVars>>

\* The controller's program has carried out the action and resets COM_ACTION.
ControllerFinish ==
    /\ com_action # IdleSentinel
    /\ com_action' = IdleSentinel
    /\ busyPolls' = 0
    /\ UNCHANGED <<clientVars, wireVars, callerVars, histVars, logVars, thrVars>>

\* The controller closes the connection; a request it has not handled is lost.
PeerClose ==
    /\ sock = "connected"
    /\ sock' = "peer_closed"
    /\ unserved' = FALSE
    /\ UNCHANGED <<msg_id, varname, value, rsp, sent, inbuf, callerVars, ctrlVars, histVars,
                   logVars, thrVars>>

(***************************************************************************)
(* The Command Controller: what follows the return of read / write.        *)
(***************************************************************************)
\* The public operation returns (or raises) o.
Finish(o) ==
    /\ outcome' = o
    /\ pc' = "idle"
    /\ UNCHANGED <<clientVars, wireVars, op, vars, idx, req, ret, ctrlVars, histVars,
                   logVars, thrVars>>

\* The caller makes the next read/write call, r.
NextCall(i, r) ==
    /\ idx' = i
    /\ req' = r
    /\ pc' = "call"
    /\ io' = <<>>
    /\ UNCHANGED <<clientVars, wireVars, op, vars, ret, outcome, ctrlVars, histVars,
                   answer, thrVars>>

\* An exception of read / write: no caller catches it.
Propagate ==
    /\ pc = "exc"
    /\ Finish(ret)

\* client.read / client.write called directly: the caller has the result.
ReturnDirect ==
    /\ pc = "ret"
    /\ op.kind \in {"read", "write"}
    /\ Finish(ret)

\* get_tool, get_joints: if reply: [float(q) for q in findall(...)]
GetNumbers ==
    /\ pc = "ret"
    /\ op.kind \in {"get_tool", "get_joints"}
    /\ Finish(GetNumbersResult(ret))

\* get_pose
GetPose ==
    /\ pc = "ret"
    /\ op.kind = "get_pose"
    /\ Finish(GetPoseResult(ret))

\* get_cartesian_speed, get_joint_speed
GetSpeed ==
    /\ pc = "ret"
    /\ op.kind \in {"get_cartesian_speed", "get_joint_speed"}
    /\ Finish(GetSpeedResult(ret))

\* if res is None: ... return False
WriteFailedNever(res) == FALSE
WriteFailed(res) == res.tag = "None"

\* movej / movel: if wait: self.__wait_motion()
EntersWaitAlways(o) == o.kind \in {"movej", "movel"}
EntersWait(o) == o.kind \in {"movej", "movel"} /\ o.wait

\* if self.c3client.read("COM_ACTION") == b"0": break
MotionDone(res) == res = PyBytes(IdleSentinel)

\* __send_vars after a write has returned, and what the command does with its
\* result: the next write, or False, or True, or the wait for the motion.
SendVars ==
    /\ pc = "ret"
    /\ op.kind \in Commands
    /\ req.flag = FlagWrite
    /\ IF WriteFailed(ret) THEN Finish(PyFalse)
       ELSE IF idx < Len(vars)
           THEN NextCall(idx + 1, WriteReq(PyStr(vars[idx + 1][1]), PyStr(vars[idx + 1][2])))
       ELSE IF EntersWait(op) THEN NextCall(idx, ReadReq(PyStr(COM_ACTION)))
       ELSE Finish(PyTrue)

\* A wait that reads COM_ACTION once and then only sleeps.
WaitMotionReadsOnce ==
    /\ pc = "ret"
    /\ op.kind \in Commands
    /\ req.flag = FlagRead
    /\ IF MotionDone(ret) THEN Finish(PyTrue)
       ELSE UNCHANGED vars_all

\* __wait_motion after a read of COM_ACTION has returned: break, or sleep and
\* read again.
WaitMotion ==
    /\ pc = "ret"
    /\ op.kind \in Commands
    /\ req.flag = FlagRead
    /\ IF MotionDone(ret) THEN Finish(PyTrue)
       ELSE NextCall(idx, ReadReq(PyStr(COM_ACTION)))

(***************************************************************************)
(* The specification.                                                      *)
(***************************************************************************)
ProbeResults == {"ok", "refused", "error"}

\* The calls of the Variable Client: read, write and the probe.
StartClient ==
    \/ \E name \in ReadNames : CallRead(name)
    \/ \E name \in WriteNames, val \in WriteValues : CallWrite(name, val)
    \/ \E attempt \in ProbeResults : test_connection(attempt)

\* The reading operations of the Command Controller.
StartGetter ==
    \/ get_tool
    \/ get_pose
    \/ get_joints
    \/ get_cartesian_speed
    \/ get_joint_speed

\* The commands of the Command Controller.
StartCommand ==
    \/ \E xyzrpy \in PoseInputs : set_tool(xyzrpy)
    \/ \E q \in JointInputs, wait \in BOOLEAN : movej(q, wait)
    \/ \E xyzrpy \in PoseInputs, wait \in BOOLEAN : movel(xyzrpy, wait)
    \/ \E v \in SpeedInputs : set_cartesian_speed(v)
    \/ \E v \in SpeedInputs : set_joint_speed(v)
    \/ \E id \in DigitalOutputIds, val \in BOOLEAN : set_digital_output(id, val)

Client == ClientSend \/ Recv \/ ReadRsp

Caller == Propagate \/ GetNumbers \/ GetPose \/ GetSpeed \/ SendVars \/ WaitMotion

Controller ==
    \/ \E k \in ReplyKinds, v \in ReadValues : ControllerReply(k, v)
    \/ ControllerFinish
    \/ PeerClose

\* The Command Controller over the Variable Client.  A public call is started
\* while fewer than MaxExchanges exchanges have succeeded.
Next ==
    \/ nOk < MaxExchanges /\ (StartGetter \/ StartCommand)
    \/ Client
    \/ Caller
    \/ Controller

Spec == Init /\ [][Next]_vars_all

\* The Variable Client called directly.
NextClient ==
    \/ nOk < MaxExchanges /\ StartClient
    \/ Client
    \/ Propagate
    \/ ReturnDirect
    \/ Controller

SpecClient == Init /\ [][NextClient]_vars_all

\* The Variable Client over many exchanges: read("COM_ACTION") again and
\* again, each answered well or with a stale sequence id.
WrapReplyKinds == {"good", "wrong_seq", "not_ok"}
NextWrap ==
    \/ nOk < MaxWrapExchanges /\ CallRead(PyStr(COM_ACTION))
    \/ Client
    \/ ReturnDirect
    \/ \E k \in WrapReplyKinds : ControllerReply(k, <<>>)

SpecWrap == Init /\ [][NextWrap]_vars_all

\* The motions, with a controller that answers every request (the answer may
\* bear a stale id, a cleared ok flag or wrong length fields, but has all its
\* fields) and keeps the connection open.
LiveReplyKinds == {"good", "wrong_seq", "not_ok", "bad_value_len", "bad_body_len"}
GoodReply == \E v \in ReadValues : ControllerReply("good", v)
NextLive ==
    \/ nOk < MaxExchanges /\ \E q \in JointInputs, wait \in BOOLEAN : movej(q, wait)
    \/ nOk < MaxExchanges /\ \E xyzrpy \in PoseInputs, wait \in BOOLEAN : movel(xyzrpy, wait)
    \/ Client
    \/ Propagate
    \/ SendVars
    \/ WaitMotion
    \/ \E k \in LiveReplyKinds, v \in ReadValues : ControllerReply(k, v)
    \/ ControllerFinish

\* The caller's thread keeps running (sendall, recv and sleep return); the
\* controller's program ends the action it was given and resets COM_ACTION;
\* and of the requests sent again and again, the controller eventually answers
\* one with the request's sequence id and the ok flag.
Fairness ==
    /\ WF_vars_all(ClientSend)
    /\ WF_vars_all(Recv)
    /\ WF_vars_all(ReadRsp)
    /\ WF_vars_all(SendVars)
    /\ WF_vars_all(WaitMotion)
    /\ WF_vars_all(Propagate)
    /\ WF_vars_all(ControllerFinish)
    /\ SF_vars_all(GoodReply)

SpecLive == Init /\ [][NextLive]_vars_all /\ Fairness

\* The first call on a new Variable Client, with names and values at the
\* limits of the 16-bit length fields, and with text that is not ASCII.
PackText(n) == [i \in 1..n |-> 65]
PackNameLens == {1, MaxU16 - 3, MaxU16 - 2, MaxU16 + 1}
PackValueLens == {1, MaxU16 - 6, MaxU16 - 5, MaxU16 + 1}
\* "é" and "€": two and three bytes in UTF-8
PackNames == {PyStr(PackText(n)) : n \in PackNameLens} \cup {PyStr(<<233>>)}
PackValues == {PyStr(PackText(n)) : n \in PackValueLens} \cup {PyStr(<<8364>>)}
\* write is called with a short name and each value, and with each name and a
\* short value.
PackWrites ==
    {<<name, val>> \in PackNames \X PackValues :
        Len(name.val) = 1 \/ Len(val.val) = 1}
PackReplyKinds == {"good", "not_ok"}
NextPack ==
    \/ op.kind = "none" /\ \E name \in PackNames : CallRead(name)
    \/ op.kind = "none" /\ \E w \in PackWrites : CallWrite(w[1], w[2])
    \/ Client
    \/ Propagate
    \/ ReturnDirect
    \/ \E k \in PackReplyKinds : ControllerReply(k, <<49>>)

SpecPack == Init /\ [][NextPack]_vars_all

\* get_pose, with the replies the controller gives to a read of $POS_ACT_MES.
\* "{E6POS: X 12.5000, Y -3.0000, Z 0.0000, A 0.0000, B 0.0000, C 0.0000}"
PoseReplySix ==
    <<123, 69, 54, 80, 79, 83, 58, 32, 88, 32, 49, 50, 46, 53, 48, 48, 48,
      44, 32, 89, 32, 45, 51, 46, 48, 48, 48, 48, 44, 32, 90, 32, 48, 46, 48,
      48, 48, 48, 44, 32, 65, 32, 48, 46, 48, 48, 48, 48, 44, 32, 66, 32, 48,
      46, 48, 48, 48, 48, 44, 32, 67, 32, 48, 46, 48, 48, 48, 48, 125>>
\* "{E6POS: X 12.5000, Y -3.0000, Z 0.0000, A 0.0000, B 0.0000, C 0.0000, S 6, T 27, E1 0.0, E2 0.0}"
PoseReplyFull ==
    <<123, 69, 54, 80, 79, 83, 58, 32, 88, 32, 49, 50, 46, 53, 48, 48, 48,
      44, 32, 89, 32, 45, 51, 46, 48, 48, 48, 48, 44, 32, 90, 32, 48, 46, 48,
      48, 48, 48, 44, 32, 65, 32, 48, 46, 48, 48, 48, 48, 44, 32, 66, 32, 48,
      46, 48, 48, 48, 48, 44, 32, 67, 32, 48, 46, 48, 48, 48, 48, 44, 32, 83,
      32, 54, 44, 32, 84, 32, 50, 55, 44, 32, 69, 49, 32, 48, 46, 48, 44, 32,
      69, 50, 32, 48, 46, 48, 125>>
PoseReplies == {PoseReplySix, PoseReplyFull}
PoseReplyKinds == {"good", "not_ok", "wrong_seq"}
NextPose ==
    \/ nOk < MaxExchanges /\ get_pose
    \/ Client
    \/ Propagate
    \/ GetPose
    \/ \E k \in PoseReplyKinds, v \in PoseReplies : ControllerReply(k, v)

SpecPose == Init /\ [][NextPose]_vars_all

\* The Variable Client reading a variable whose value is long: with 246 bytes
\* of value the response is 256 bytes, what one recv(256) can return; with
\* more, the response does not fit one receive.
LongValueLens == {RecvSize - RspHeadLen - RspTailLen,
                  RecvSize - RspHeadLen - RspTailLen + 4,
                  RecvSize + 44}
LongValues == {[i \in 1..n |-> 49] : n \in LongValueLens}
LongReplyKinds == {"good", "not_ok"}
\* A read is started while fewer than MaxExchanges exchanges have succeeded
\* and less than one receive of unread bytes has piled up.
NextLong ==
    \/ nOk < MaxExchanges /\ Len(inbuf) < RecvSize /\ CallRead(PyStr(VAR_TOOL))
    \/ Client
    \/ Propagate
    \/ ReturnDirect
    \/ \E k \in LongReplyKinds, v \in LongValues : ControllerReply(k, v)

SpecLong == Init /\ [][NextLong]_vars_all

(***************************************************************************)
(* Two threads call read on the one client, with no mutex around the calls. *)
(* Each statement of read, _read_var and _send_req that touches the        *)
(* client's attributes or the socket is a step of its own; the locals of   *)
(* a call (var, req, what recv returned, the result) are the thread's.     *)
(***************************************************************************)
\* The variables the threads read, and the value the controller holds for each.
ThreadNames == {VAR_VEL_CP, VAR_VEL_AXIS1}
HeldValue(name) == IF name = VAR_VEL_CP THEN <<49, 46, 53>> ELSE <<50, 46, 53>>

\* The threads other than t.
OtherThreads(t) == Threads \ {t}

\* The caller's part of every thread step: the single caller and the
\* controller's COM_ACTION stay as they are.
ThreadFrame == UNCHANGED <<value, sent, unserved, callerVars, ctrlVars, histVars, logVars>>

\* A read guarded by a lock: the call waits while another thread is inside.
ThreadReadLocked(t, name) ==
    /\ th[t].pc = "idle"
    /\ \A u \in OtherThreads(t) : th[u].pc \in {"idle", "done"}
    /\ th' = [th EXCEPT ![t].pc = "store", ![t].var = PyStr(name)]
    /\ UNCHANGED <<msg_id, sock, varname, rsp, inbuf, unans, maxOut>>
    /\ ThreadFrame

\* Thread t calls client.read(name): nothing is acquired on entry.
ThreadRead(t, name) ==
    /\ th[t].pc = "idle"
    /\ th' = [th EXCEPT ![t].pc = "store", ![t].var = PyStr(name)]
    /\ UNCHANGED <<msg_id, sock, varname, rsp, inbuf, unans, maxOut>>
    /\ ThreadFrame

\* self.varname = var.encode(ENCODING)
ThreadStoreName(t) ==
    /\ th[t].pc = "store"
    /\ varname' = PyBytes(Encode(th[t].var.val))
    /\ th' = [th EXCEPT ![t].pc = "pack"]
    /\ UNCHANGED <<msg_id, sock, rsp, inbuf, unans, maxOut>>
    /\ ThreadFrame

\* req = self._pack_read_req(): packs self.msg_id and self.varname as they are now
ThreadPack(t) ==
    /\ th[t].pc = "pack"
    /\ th' = [th EXCEPT ![t].pc = "clear", ![t].req = _pack_read_req(msg_id, varname.val)]
    /\ UNCHANGED <<msg_id, sock, varname, rsp, inbuf, unans, maxOut>>
    /\ ThreadFrame

\* self.rsp = None
ThreadClearRsp(t) ==
    /\ th[t].pc = "clear"
    /\ rsp' = PyNone
    /\ th' = [th EXCEPT ![t].pc = "send"]
    /\ UNCHANGED <<msg_id, sock, varname, inbuf, unans, maxOut>>
    /\ ThreadFrame

\* self.sock.sendall(req); OSError on the socket that never connected
ThreadSendall(t) ==
    /\ th[t].pc = "send"
    /\ IF sock = "unconnected"
       THEN /\ th' = [th EXCEPT ![t].pc = "done", ![t].ret = Raised("OSError")]
            /\ UNCHANGED <<unans, maxOut>>
       ELSE /\ th' = [th EXCEPT ![t].pc = "recv"]
            /\ unans' = Append(unans, th[t].req)
            /\ maxOut' = IF Len(unans) + 1 > maxOut THEN Len(unans) + 1 ELSE maxOut
    /\ UNCHANGED <<msg_id, sock, varname, rsp, inbuf>>
    /\ ThreadFrame

\* self.sock.recv(256) returns to the thread: it blocks while nothing has arrived
ThreadRecv(t) ==
    /\ th[t].pc = "recv"
    /\ inbuf # <<>>
    /\ th' = [th EXCEPT ![t].pc = "got",
                        ![t].got = SubSeq(inbuf, 1, Min(Len(inbuf), RecvSize))]
    /\ inbuf' = SubSeq(inbuf, Min(Len(inbuf), RecvSize) + 1, Len(inbuf))
    /\ UNCHANGED <<msg_id, sock, varname, rsp, unans, maxOut>>
    /\ ThreadFrame

\* self.rsp = <what recv returned>
ThreadStoreRsp(t) ==
    /\ th[t].pc = "got"
    /\ rsp' = PyBytes(th[t].got)
    /\ th' = [th EXCEPT ![t].pc = "read_rsp"]
    /\ UNCHANGED <<msg_id, sock, varname, inbuf, unans, maxOut>>
    /\ ThreadFrame

\* _value = self._read_rsp(); return _value
ThreadReadRsp(t) ==
    /\ th[t].pc = "read_rsp"
    /\ LET r == _read_rsp(rsp, msg_id) IN
       /\ msg_id' = r.msg_id
       /\ th' = [th EXCEPT ![t].pc = "done", ![t].ret = r.ret]
    /\ UNCHANGED <<sock, varname, rsp, inbuf, unans, maxOut>>
    /\ ThreadFrame

\* The controller answers the oldest request on the wire with the value it
\* holds for the variable the request names.
ControllerAnswer ==
    /\ unans # <<>>
    /\ LET r == Head(unans) IN
       inbuf' = inbuf \o Response("good", ReqId(r), ReqFlag(r), HeldValue(ReqName(r)))
    /\ unans' = Tail(unans)
    /\ UNCHANGED <<msg_id, sock, varname, rsp, th, maxOut>>
    /\ ThreadFrame

\* Each thread makes one call of read.
NextThreads ==
    \/ \E t \in Threads, name \in ThreadNames : ThreadRead(t, name)
    \/ \E t \in Threads : ThreadStoreName(t)
    \/ \E t \in Threads : ThreadPack(t)
    \/ \E t \in Threads : ThreadClearRsp(t)
    \/ \E t \in Threads : ThreadSendall(t)
    \/ \E t \in Threads : ThreadRecv(t)
    \/ \E t \in Threads : ThreadStoreRsp(t)
    \/ \E t \in Threads : ThreadReadRsp(t)
    \/ ControllerAnswer

SpecThreads == Init /\ [][NextThreads]_vars_all

(***************************************************************************)
(* The claims.                                                             *)
(***************************************************************************)
\* The response has the ten bytes around the value, so it has every field.
FullRsp == rsp.tag = "bytes" /\ Len(rsp.val) >= 10
\* The sequence id the request on the wire carries.
SentId == sent[1] * 256 + sent[2]
\* The sequence id, the ok flag and the value field of the response received.
GotId == rsp.val[1] * 256 + rsp.val[2]
GotOk == rsp.val[Len(rsp.val)] # 0
GotValue == SubSeq(rsp.val, 8, Len(rsp.val) - 3)

\* C1: when read or write returns, on a response that has all its fields, it
\* returns the response's value exactly when the response's sequence id is
\* the one the request carried and its ok flag is true, and then the client's
\* sequence id has advanced by one; otherwise it returns None and the
\* sequence id is the one the request carried.  A direct caller of read or
\* write is handed that very result.
C1_ValueIffCorrelated ==
    /\ pc = "ret" =>
        /\ FullRsp
        /\ IF GotId = SentId /\ GotOk
           THEN ret = PyBytes(GotValue) /\ msg_id = (SentId + 1) % 65536
           ELSE ret = PyNone /\ msg_id = SentId
    /\ (pc = "idle" /\ op.kind \in {"read", "write"} /\ outcome.tag \in {"bytes", "None"})
        => outcome = ret

\* C1 witness: a response with the ok flag set and another sequence id was
\* received, and the call returned None without advancing the sequence id.
C1_Witness ==
    /\ pc = "idle" /\ op.kind = "read" /\ outcome = PyNone
    /\ FullRsp /\ GotOk /\ GotId # SentId /\ msg_id = SentId

\* C2: the sequence id is a 16-bit number, and it is the initial id, a number
\* in 1..100, plus the number of exchanges that succeeded, modulo 65536.
C2_SeqIdCountsSuccesses ==
    /\ msg_id \in 0..65535
    /\ init_id \in 1..100
    /\ msg_id = (init_id + nOk) % 65536

\* C2 witness: the request that carried the sequence id 0, after 65535, was
\* answered and correlated, and the sequence id went on to 1.
C2_Witness ==
    /\ pc = "ret" /\ ret.tag = "bytes"
    /\ SentId = 0 /\ msg_id = 1 /\ nOk > 65000

\* The operation in progress, or the last one, is a command.
IsCommand == op.kind \in Commands
\* Every write the operation has sent returned a value.
AllWritten == \A i \in 1..Len(writes) : writes[i].res = "value"

\* C3: the writes a command has sent are the first entries of its batch, in
\* the batch's order; a write is sent only when every write before it has
\* returned a value; once a write has returned None the command returns
\* False; and a command returns True only when each write of the batch was
\* sent and returned a value.
C3_OrderedWriteAbort ==
    IsCommand =>
        /\ Len(writes) <= Len(vars)
        /\ \A i \in 1..Len(writes) :
            /\ writes[i].name = vars[i][1]
            /\ writes[i].value = vars[i][2]
            /\ i < Len(writes) => writes[i].res = "value"
        /\ (Len(writes) > 0 /\ writes[Len(writes)].res = "None") =>
            /\ pc \in {"ret", "idle"}
            /\ pc = "idle" => outcome = PyFalse
        /\ outcome = PyTrue => Len(writes) = Len(vars) /\ AllWritten

\* C3 witness: set_digital_output returned False after its second write of
\* three returned None, and the third was not sent.
C3_Witness ==
    /\ pc = "idle" /\ op.kind = "set_digital_output" /\ outcome = PyFalse
    /\ Len(vars) = 3 /\ Len(writes) = 2
    /\ writes[1].res = "value" /\ writes[2].res = "None"

\* C4: a command's batch ends with COM_ACTION and names it nowhere else, and
\* when the client has sent a write of COM_ACTION, that write is the last of
\* the batch and the writes sent before it are the payload writes of the
\* batch, each of which returned a value.
C4_ActionAfterPayload ==
    IsCommand =>
        /\ Len(vars) >= 2
        /\ \A i \in 1..Len(vars) : (vars[i][1] = COM_ACTION) <=> (i = Len(vars))
        /\ \A i \in 1..Len(writes) :
            writes[i].name = COM_ACTION =>
                /\ i = Len(vars)
                /\ \A j \in 1..(i - 1) :
                    /\ writes[j].name = vars[j][1]
                    /\ writes[j].name # COM_ACTION
                    /\ writes[j].res = "value"

\* C4 witness: set_tool wrote COM_FRAME, which returned a value, and then
\* COM_ACTION.
C4_Witness ==
    /\ op.kind = "set_tool" /\ Len(writes) = 2
    /\ writes[1].name = COM_FRAME /\ writes[1].res = "value"
    /\ writes[2].name = COM_ACTION /\ writes[2].value = <<53>>

\* C5: movej and movel read COM_ACTION only when called with wait and after
\* every write of the batch was sent and returned a value.
C5_WaitOnlyAfterWrites ==
    op.kind \in {"movej", "movel"} =>
        /\ polls > 0 => (op.wait /\ Len(writes) = Len(vars) /\ AllWritten)
        /\ (req.flag = FlagRead /\ pc # "idle") =>
                (op.wait /\ Len(writes) = Len(vars) /\ AllWritten)

\* C5 witness: movej with wait returned False after its write of COM_ACTION
\* returned None, and no read of COM_ACTION was sent.
C5_Witness ==
    /\ pc = "idle" /\ op.kind = "movej" /\ op.wait /\ outcome = PyFalse
    /\ Len(writes) = 2 /\ writes[2].res = "None" /\ polls = 0

\* movej or movel is in __wait_motion: its writes are done and it polls.
InWaitMotion == op.kind \in {"movej", "movel"} /\ req.flag = FlagRead /\ pc # "idle"

\* C6: once movej or movel polls COM_ACTION after its writes, with a
\* controller that resets COM_ACTION to "0" and eventually answers a poll
\* with the request's sequence id and the ok flag, the poll loop ends and the
\* operation returns True.
C6_WaitTerminates == InWaitMotion ~> (pc = "idle" /\ outcome = PyTrue)

\* C6 witness: movej with wait returned True after a poll that read the busy
\* action code and a later poll that read b"0".
C6_Witness ==
    /\ pc = "idle" /\ op.kind = "movej" /\ op.wait /\ outcome = PyTrue
    /\ polls >= 2 /\ ret = PyBytes(<<48>>) /\ nOk >= 4

\* The response received is shorter than the ten bytes around the value.
ShortRsp == rsp.tag = "bytes" /\ Len(rsp.val) < 10

\* C7: on a response of fewer than ten bytes, the empty one
\* included, read / write returns None, raises nothing and leaves the
\* sequence id as it was.
C7_ShortResponseIsAbsent ==
    [][(pc = "rsp" /\ ShortRsp) => (pc' = "ret" /\ ret' = PyNone /\ msg_id' = msg_id)]_vars_all

\* The length fields of the response received do not agree with its size.
DeclaredBodyLen == rsp.val[3] * 256 + rsp.val[4]
DeclaredValueLen == rsp.val[6] * 256 + rsp.val[7]
LengthMismatch ==
    FullRsp /\ (DeclaredBodyLen # Len(rsp.val) - 4 \/ DeclaredValueLen # Len(rsp.val) - 10)

\* C8: a response whose body_len or value_len field does not
\* agree with the bytes received is never returned as a value and never
\* advances the sequence id.
C8_MismatchRejected ==
    (pc = "ret" /\ LengthMismatch) => (ret.tag # "bytes" /\ msg_id = SentId)

\* The arguments of the read / write call have the types it asks for.
ArgsAreText == IsStr(req.var) /\ (req.flag = FlagWrite => IsStr(req.value))

\* C9: on a client whose connection failed at construction, read
\* and write with text arguments return None, and nothing goes on the wire.
C9_UnconnectedIsAbsent ==
    (sock = "unconnected" /\ pc = "idle" /\ op.kind \in {"read", "write"} /\ ArgsAreText)
        => (outcome = PyNone /\ sent = <<>>)

\* C10: an operation of the Command Controller whose read or
\* write returned None returns None or False and raises nothing.
C10_AbsentIsFailureIndicator ==
    (pc = "idle" /\ op.kind \in (Getters \cup Commands) /\ ret = PyNone)
        => outcome \in {PyNone, PyFalse}

\* C11: read with a name that is not text, and write with a name or a value
\* that is not text, raise at once: the step that takes the call ends it with
\* an exception, sends nothing, receives nothing and leaves the sequence id,
\* the socket and the stored name, value and response as they were.  (While
\* the call has not been taken, pc stays "call" and only the controller acts.)
C11_BadTypeFailsBeforeIO ==
    [][(pc = "call" /\ ~ArgsAreText /\ pc' # pc) =>
           /\ pc' = "exc" /\ ret' = Raised("Exception")
           /\ UNCHANGED <<msg_id, sock, varname, value, rsp, sent, unserved, inbuf>>
      ]_vars_all

\* C11 witness: after a read that stored a name and a response, write with a
\* text name and a value that is not text ended with the exception, and the
\* stored name and response are those of the read.
C11_Witness ==
    /\ pc = "idle" /\ op.kind = "write" /\ outcome = Raised("Exception")
    /\ IsStr(req.var) /\ ~IsStr(req.value)
    /\ varname = PyBytes(VAR_VEL_CP) /\ value = PyUnset /\ rsp.tag = "bytes"
    /\ ReqFlag(sent) = FlagRead /\ msg_id = SentId + 1

\* The lengths of the encoded name and value of the call, and the body
\* length its request would declare.
CallNameLen == Len(Encode(req.var.val))
CallValueLen == IF req.flag = FlagWrite THEN Len(Encode(req.value.val)) ELSE 0
CallBodyLen == IF req.flag = FlagWrite THEN CallNameLen + 5 + CallValueLen ELSE CallNameLen + 3
\* The step that takes a call with text arguments fails in the encoding,
\* before anything is sent and with the sequence id unchanged.
EncodingFails ==
    /\ pc' = "exc" /\ ret' = Raised("struct.error")
    /\ UNCHANGED <<msg_id, sent, unserved, inbuf>>
\* The step encodes the request: on a socket that is connected it sends it.
EncodingSucceeds ==
    /\ ret' # Raised("struct.error")
    /\ sock # "unconnected" => (pc' = "sent" /\ Len(sent') = CallBodyLen + 4)

\* C12, for each field on its own: encoding fails exactly when the encoded name or the encoded
\* value is longer than 65535 bytes.
C12_FailsIffFieldTooLong ==
    [][(pc = "call" /\ ArgsAreText /\ pc' # pc) =>
           IF CallNameLen > 65535 \/ CallValueLen > 65535
           THEN EncodingFails ELSE EncodingSucceeds]_vars_all

\* C12: encoding fails, before any byte is sent and with the sequence id
\* unchanged, exactly when the body length (name length + 3 for a read, name
\* length + 5 + value length for a write) is over 65535, which it is whenever
\* the name or the value is longer than 65535 bytes; a request whose body
\* length is at most 65535 is encoded without error.
C12_FailsIffBodyTooLong ==
    [][(pc = "call" /\ ArgsAreText /\ pc' # pc) =>
           /\ (CallNameLen > 65535 \/ CallValueLen > 65535) => CallBodyLen > 65535
           /\ IF CallBodyLen > 65535 THEN EncodingFails ELSE EncodingSucceeds]_vars_all

\* C12 witness: read with a name of 65533 bytes, which fits its length
\* field, raised struct.error; nothing was sent and the sequence id is the
\* initial one.
C12_Witness ==
    /\ pc = "idle" /\ op.kind = "read" /\ outcome = Raised("struct.error")
    /\ Len(req.var.val) = 65533
    /\ sent = <<>> /\ msg_id = init_id

\* The payload variables and the action code the documentation gives for
\* each command ("2", "3", "5", "6", "7", "10").
DocPayload(kind) ==
    CASE kind = "movej" -> <<COM_E6AXIS>>
      [] kind = "movel" -> <<COM_E6POS>>
      [] kind = "set_tool" -> <<COM_FRAME>>
      [] kind = "set_cartesian_speed" -> <<COM_VALUE1>>
      [] kind = "set_joint_speed" -> <<COM_VALUE2>>
      [] kind = "set_digital_output" -> <<COM_VALUE1, COM_VALUE2>>
DocActionCode(kind) ==
    CASE kind = "movej" -> <<50>>
      [] kind = "movel" -> <<51>>
      [] kind = "set_tool" -> <<53>>
      [] kind = "set_cartesian_speed" -> <<54>>
      [] kind = "set_joint_speed" -> <<55>>
      [] kind = "set_digital_output" -> <<49, 48>>

\* C13: the batch of a command is its documented payload variables, in
\* order, followed by COM_ACTION with its documented action code; the writes
\* it has put on the wire are the first entries of that batch, name and value;
\* and set_digital_output's second payload value is "0" or "1".
C13_DocumentedBatch ==
    IsCommand =>
        LET payload == DocPayload(op.kind) IN
        /\ Len(vars) = Len(payload) + 1
        /\ \A i \in 1..Len(payload) : vars[i][1] = payload[i]
        /\ vars[Len(vars)] = <<COM_ACTION, DocActionCode(op.kind)>>
        /\ op.kind = "set_digital_output" => vars[2][2] \in {<<48>>, <<49>>}
        /\ Len(writes) <= Len(vars)
        /\ \A i \in 1..Len(writes) :
               writes[i].name = vars[i][1] /\ writes[i].value = vars[i][2]

\* C13 witness: movel returned True after it wrote COM_E6POS and then "3" to
\* COM_ACTION.
C13_Witness ==
    /\ pc = "idle" /\ op.kind = "movel" /\ outcome = PyTrue
    /\ Len(writes) = 2
    /\ writes[1].name = COM_E6POS /\ writes[1].res = "value"
    /\ writes[2].name = COM_ACTION /\ writes[2].value = <<51>> /\ writes[2].res = "value"

\* A step of the probe: the caller is idle before and after it, the
\* operation is then test_connection, and the caller's state has changed.
ProbeStep ==
    /\ pc = "idle" /\ pc' = "idle"
    /\ op'.kind = "test_connection"
    /\ <<op, ret, outcome>>' # <<op, ret, outcome>>

\* C14: a probe leaves the client's socket, sequence id and stored name,
\* value and response, and the connection's traffic, as they were; it returns
\* True when its own connection attempt gave 0 and False when the attempt
\* gave an error number or raised a socket error.
C14_ProbeLeavesPrimary ==
    [][ProbeStep =>
           /\ UNCHANGED <<msg_id, sock, varname, value, rsp, sent, unserved, inbuf>>
           /\ outcome' = (IF ret' = PyInt(0) THEN PyTrue ELSE PyFalse)
           /\ ret'.tag = "raised" => outcome' = PyFalse
      ]_vars_all

\* C14 witness: after a read that succeeded on the connected client, a probe
\* whose attempt raised returned False, and the client is as the read left it.
C14_Witness ==
    /\ pc = "idle" /\ op.kind = "test_connection"
    /\ ret = Raised("socket.error") /\ outcome = PyFalse
    /\ sock = "connected" /\ rsp.tag = "bytes" /\ varname.tag = "bytes"
    /\ msg_id = init_id + 1 /\ nOk = 1

\* The body_len field of the request on the wire.
SentBodyLen == sent[3] * 256 + sent[4]

\* C15: the request the client has just sent is made of bytes; its first
\* field is the client's sequence id; its body_len field is the number of
\* bytes after the first four; a read has flag 0, body_len = name_len + 3 and
\* ends with the name; a write has flag 1, body_len = name_len + 5 +
\* value_len and carries the name, the value's length and the value; name
\* and value are the encoded bytes the client stored, unchanged.
C15_RequestLayout ==
    pc = "sent" =>
        /\ sent \in Seq(0..255)
        /\ sent[1] * 256 + sent[2] = msg_id
        /\ SentBodyLen = Len(sent) - 4
        /\ sent[5] = req.flag
        /\ sent[6] * 256 + sent[7] = Len(varname.val)
        /\ SubSeq(sent, 8, 7 + Len(varname.val)) = varname.val
        /\ req.flag = FlagRead =>
              /\ sent[5] = 0
              /\ SentBodyLen = Len(varname.val) + 3
              /\ Len(sent) = 7 + Len(varname.val)
        /\ req.flag = FlagWrite =>
              LET n == Len(varname.val)
                  m == Len(value.val)
              IN /\ sent[5] = 1
                 /\ SentBodyLen = n + 5 + m
                 /\ sent[8 + n] * 256 + sent[9 + n] = m
                 /\ SubSeq(sent, 10 + n, 9 + n + m) = value.val
                 /\ Len(sent) = 9 + n + m

\* C15 witness: write("é", "A") with the sequence id 1 was sent as
\* 00 01 | 00 08 | 01 | 00 02 | C3 A9 | 00 01 | 41.
C15_Witness ==
    /\ pc = "sent" /\ req.flag = FlagWrite /\ req.var = PyStr(<<233>>)
    /\ sent = <<0, 1, 0, 8, 1, 0, 2, 195, 169, 0, 1, 65>>

\* The numbers the pattern finds in the reply the read returned.
ReplyNumbers == pattern_reply_numbers_findall(Decode(ret.val))

\* C16: when the read of $POS_ACT_MES returned a reply in which the pattern
\* finds six numbers or more, get_pose returns the first six, in order.
C16_FirstSixNumbers ==
    (pc = "idle" /\ op.kind = "get_pose" /\ ret.tag = "bytes" /\ Len(ReplyNumbers) >= 6)
        => outcome = PyList(Floats(SubSeq(ReplyNumbers, 1, 6)))

\* C17: movej / movel leave the wait for the motion only in a step that
\* follows a read of COM_ACTION that returned exactly b"0", and then they
\* return True: there is no other way out of the wait.
C17_LeavesWaitOnlyOnIdle ==
    [][(InWaitMotion /\ ~InWaitMotion') =>
           (pc = "ret" /\ ret = PyBytes(<<48>>) /\ outcome' = PyTrue)]_vars_all

\* C18: a read / write call sends at most once and receives only after it
\* sent, once; a call that has returned, with a value or with None, did
\* exactly one send followed by exactly one receive; a call that raised did
\* nothing on the socket or one send and one receive; a request is on the
\* wire unanswered, or unreceived, only while the call that sent it waits in
\* its receive, so there is never more than one; and a call that returned
\* None sent its request once.
C18_OneSendThenOneRecv ==
    /\ io \in {<<>>, <<"send">>, <<"send", "recv">>}
    /\ pc = "call" => io = <<>>
    /\ pc = "sent" <=> io = <<"send">>
    /\ pc \in {"rsp", "ret"} => io = <<"send", "recv">>
    /\ pc = "exc" => io \in {<<>>, <<"send", "recv">>}
    /\ unserved => pc = "sent"

\* C18 witness: a call returned None after a failed exchange: its request was
\* sent once, one response was received, nothing is left on the wire and
\* nothing was sent again.
C18_Witness ==
    /\ pc = "ret" /\ ret = PyNone
    /\ io = <<"send", "recv">> /\ ~unserved /\ inbuf = <<>>

\* C18, for every call: every call that has ended, by returning or by raising, did
\* exactly one send followed by exactly one receive.
C18_EveryCallSendsOnce ==
    pc \in {"ret", "exc"} => io = <<"send", "recv">>

\* What read or write returned is the whole value field of the response the
\* controller made.
ReturnedWholeValue ==
    (pc = "ret" /\ ret.tag = "bytes") => ret.val = answer

\* What the call received begins with the response the controller made to the
\* call's own request, not with bytes an earlier receive left behind.
ReceivedOwnResponse ==
    (pc = "rsp" /\ rsp.tag = "bytes" /\ rsp.val # <<>>) =>
        /\ ~unserved
        /\ \E k \in LongReplyKinds :
              LET whole == Response(k, ReqId(sent), ReqFlag(sent), answer)
              IN rsp.val = SubSeq(whole, 1, Min(Len(whole), RecvSize))

\* C19: whenever read or write returns a value, the value is byte for byte
\* the whole value field of the response the controller made to that request,
\* also when the response is longer than the 256 bytes one receive returns;
\* and the bytes a receive left behind are never taken as the response to a
\* later request.
C19_ValueIsWholeAnswer ==
    ReturnedWholeValue /\ ReceivedOwnResponse

\* Thread t has returned the value of the variable v.
ThreadGot(t, v) == th[t].pc = "done" /\ th[t].ret = PyBytes(HeldValue(v))

\* C20: the client takes no lock: whatever the other thread is doing, a
\* thread can enter read, and inside read it can store the name, pack the
\* request, clear the stored response, send, and store what it received;
\* the only step that waits is the receive, and it waits for bytes.
C20_NoInternalLock ==
    \A t \in Threads :
        /\ th[t].pc = "idle" => \A name \in ThreadNames : ENABLED ThreadRead(t, name)
        /\ th[t].pc = "store" => ENABLED ThreadStoreName(t)
        /\ th[t].pc = "pack" => ENABLED ThreadPack(t)
        /\ th[t].pc = "clear" => ENABLED ThreadClearRsp(t)
        /\ th[t].pc = "send" => ENABLED ThreadSendall(t)
        /\ th[t].pc = "got" => ENABLED ThreadStoreRsp(t)
        /\ th[t].pc = "read_rsp" => ENABLED ThreadReadRsp(t)
        /\ (th[t].pc = "recv" /\ inbuf # <<>>) => ENABLED ThreadRecv(t)

\* C20 witness: the two threads read different variables; two requests were
\* on the wire at once and carried the same sequence id; thread 1's stored
\* name was overwritten by thread 2's before thread 1 packed, so its request
\* named thread 2's variable; and thread 1 was returned the value of thread
\* 2's variable.
C20_Witness ==
    /\ th[1].var = PyStr(VAR_VEL_CP) /\ th[2].var = PyStr(VAR_VEL_AXIS1)
    /\ maxOut = 2
    /\ ReqId(th[1].req) = ReqId(th[2].req)
    /\ ReqName(th[1].req) = VAR_VEL_AXIS1
    /\ ThreadGot(1, VAR_VEL_AXIS1)
=============================================================================
